---- MODULE Spec2Model ----
(***************************************************************************)
(* smolgrad: the Tensor node, the differentiable operations and the        *)
(* backward scheduler of smolgrad/core/engine.py as a state machine.       *)
(*                                                                         *)
(* Array elements are exact rationals <<n, d>> (d > 0, lowest terms); an   *)
(* array is a record [shape, v] with v the elements in row-major order.    *)
(* Axes and indices are 0-based as in the source; TLA+ sequences are       *)
(* 1-based, so position a of a shape is shape[a + 1].  The backend is      *)
(* numpy (the fallback `_get_d` returns when mlx cannot be imported).      *)
(***************************************************************************)
EXTENDS Integers, Sequences, FiniteSets, TLC

--------------------------------------------------------------------------
(* Bounds of the model. *)

\* nodes the operation-built specifications may create
MaxNodes == 3
\* nodes of the acyclic graphs the scheduler specification draws
MaxGraphNodes == 4
\* nodes of the parent relations, cyclic ones included, the cycle specification draws
MaxCycleNodes == 3
\* depth of nested no_grad scopes
MaxDepth == 2
\* distinct no_grad objects
NumScopes == 2
\* backward() calls in one behaviour
MaxBackward == 1
MaxRoundTrip == 4

--------------------------------------------------------------------------
(* Exact rational arithmetic for array elements. *)

Abs(x) == IF x < 0 THEN -x ELSE x

RECURSIVE Gcd(_, _)
Gcd(a, b) == IF b = 0 THEN a ELSE Gcd(b, a % b)

QNorm(n, d) ==
    LET s == IF d < 0 THEN -1 ELSE 1
        g == Gcd(Abs(n), Abs(d))
    IN  <<(s * n) \div g, (s * d) \div g>>

Q(n) == <<n, 1>>
QAdd(a, b) == QNorm(a[1] * b[2] + b[1] * a[2], a[2] * b[2])
QMul(a, b) == QNorm(a[1] * b[1], a[2] * b[2])
QInv(a) == QNorm(a[2], a[1])

RECURSIVE QPowNat(_, _)
QPowNat(a, k) == IF k = 0 THEN Q(1) ELSE QMul(a, QPowNat(a, k - 1))

--------------------------------------------------------------------------
(* Arrays of the numeric backend. *)

None == [none |-> TRUE]

Range(q) == {q[i] : i \in 1..Len(q)}

RECURSIVE Prod(_)
Prod(s) == IF s = <<>> THEN 1 ELSE Head(s) * Prod(Tail(s))

RECURSIVE QSum(_)
QSum(s) == IF s = <<>> THEN Q(0) ELSE QAdd(Head(s), QSum(Tail(s)))

Size(shape) == Prod(shape)

\* the index tuple (0-based entries) of the element at flat offset k
Unravel(k, shape) ==
    [j \in 1..Len(shape) |->
        (k \div Prod(SubSeq(shape, j + 1, Len(shape)))) % shape[j]]

\* the flat offset (0-based) of the element at index tuple idx
Ravel(idx, shape) ==
    LET term(j) == idx[j] * Prod(SubSeq(shape, j + 1, Len(shape)))
        RECURSIVE acc(_)
        acc(j) == IF j = 0 THEN 0 ELSE term(j) + acc(j - 1)
    IN  acc(Len(shape))

At(t, idx) == t.v[Ravel(idx, t.shape) + 1]

\* the array of the given shape whose element at idx is f(idx)
MkArray(shape, f(_)) ==
    [shape |-> shape,
     v |-> [k \in 1..Size(shape) |-> f(Unravel(k - 1, shape))]]

full_like(t, q) == [shape |-> t.shape, v |-> [k \in 1..Len(t.v) |-> q]]
zeros_like(t) == full_like(t, Q(0))
ones_like(t) == full_like(t, Q(1))

\* elementwise arithmetic on arrays of one shape
TAdd(a, b) == [shape |-> a.shape, v |-> [k \in 1..Len(a.v) |-> QAdd(a.v[k], b.v[k])]]
TMul(a, b) == [shape |-> a.shape, v |-> [k \in 1..Len(a.v) |-> QMul(a.v[k], b.v[k])]]
TScale(c, t) == [shape |-> t.shape, v |-> [k \in 1..Len(t.v) |-> QMul(c, t.v[k])]]

\* numpy broadcasting of an array of shape src to shape dst (trailing axes aligned)
Broadcastable(src, dst) ==
    /\ Len(src) <= Len(dst)
    /\ \A j \in 1..Len(src) :
          LET d == dst[j + Len(dst) - Len(src)]
          IN  src[j] = d \/ src[j] = 1

broadcast_to(t, dst) ==
    LET off == Len(dst) - Len(t.shape)
        pick(idx) == [j \in 1..Len(t.shape) |->
                         IF t.shape[j] = 1 THEN 0 ELSE idx[j + off]]
    IN  MkArray(dst, LAMBDA idx : At(t, pick(idx)))

\* axes=None reverses the axes; otherwise axis j of the result is axis axes[j] of t
transpose(t, axes) ==
    LET n     == Len(t.shape)
        ax    == IF axes = None THEN [j \in 1..n |-> n - j] ELSE axes
        shp   == [j \in 1..n |-> t.shape[ax[j] + 1]]
        src(idx) == [a \in 1..n |->
                        idx[CHOOSE j \in 1..n : ax[j] = a - 1]]
    IN  MkArray(shp, LAMBDA idx : At(t, src(idx)))

reshape(t, shape) == [shape |-> shape, v |-> t.v]

\* the positions (1-based) of shape that a set of 0-based axes leaves
RECURSIVE KeepSeq(_, _, _)
KeepSeq(n, axes, j) ==
    IF j > n THEN <<>>
    ELSE (IF (j - 1) \in axes THEN <<>> ELSE <<j>>) \o KeepSeq(n, axes, j + 1)

\* the values an `axis` argument takes: None, an integer, a tuple of integers
NoAxis == [kind |-> "none"]
IntAxis(a) == [kind |-> "int", a |-> a]
TupleAxis(t) == [kind |-> "tuple", t |-> t]

\* the set of axes an `axis` argument names, for a rank-n array
AxisSet(axis, n) ==
    CASE axis.kind = "none"  -> 0..(n - 1)
      [] axis.kind = "int"   -> {axis.a}
      [] axis.kind = "tuple" -> {axis.t[j] : j \in 1..Len(axis.t)}

\* sum(t, axis=axis, keepdims=False)
sum(t, axis) ==
    LET n    == Len(t.shape)
        red  == AxisSet(axis, n)
        keep == KeepSeq(n, red, 1)
        shp  == [j \in 1..Len(keep) |-> t.shape[keep[j]]]
        hits(idx) == {k \in 1..Len(t.v) :
                        \A j \in 1..Len(keep) :
                            Unravel(k - 1, t.shape)[keep[j]] = idx[j]}
        RECURSIVE tot(_)
        tot(S) == IF S = {} THEN Q(0)
                  ELSE LET k == CHOOSE x \in S : TRUE
                       IN  QAdd(t.v[k], tot(S \ {k}))
    IN  MkArray(shp, LAMBDA idx : tot(hits(idx)))

\* size-1 axes inserted so that they sit at the positions `axes` of the result
expand_dims(t, axes) ==
    LET n == Len(t.shape) + Cardinality(axes)
        keep == KeepSeq(n, axes, 1)
        shp == [j \in 1..n |->
                  IF (j - 1) \in axes THEN 1
                  ELSE t.shape[CHOOSE i \in 1..Len(keep) : keep[i] = j]]
    IN  [shape |-> shp, v |-> t.v]

\* rows lo..hi-1 along axis 0
Rows(t, lo, hi) ==
    LET row == Prod(Tail(t.shape))
    IN  [shape |-> <<hi - lo>> \o Tail(t.shape),
         v |-> SubSeq(t.v, lo * row + 1, hi * row)]

\* t[i] for an integer i: row i along axis 0, the axis dropped
Item(t, i) ==
    LET row == Prod(Tail(t.shape))
    IN  [shape |-> Tail(t.shape), v |-> SubSeq(t.v, i * row + 1, (i + 1) * row)]

\* numpy split(t, sections, axis=0) for an integer number of equal sections
split(t, sections) ==
    LET m == t.shape[1] \div sections
    IN  [i \in 1..sections |-> Rows(t, (i - 1) * m, i * m)]

\* numpy concatenate(ts, axis=0)
RECURSIVE concatenate(_)
concatenate(ts) ==
    IF Len(ts) = 1 THEN ts[1]
    ELSE LET r == concatenate(Tail(ts))
         IN  [shape |-> <<ts[1].shape[1] + r.shape[1]>> \o Tail(r.shape),
              v |-> ts[1].v \o r.v]

\* a @ b for two 2-D arrays
matmul(a, b) ==
    LET k == a.shape[2]
    IN  MkArray(<<a.shape[1], b.shape[2]>>,
                LAMBDA idx : QSum([x \in 1..k |->
                    QMul(At(a, <<idx[1], x - 1>>), At(b, <<x - 1, idx[2]>>))]))

\* swapaxes(-1, -2) of a 2-D array
swapaxes(t) == transpose(t, <<1, 0>>)

\* where(mask, value, t): value where the mask is set, t's element elsewhere
where(mask, q, t) ==
    [shape |-> t.shape, v |-> [k \in 1..Len(t.v) |-> IF mask[k] THEN q ELSE t.v[k]]]

--------------------------------------------------------------------------
(* The program state. *)

VARIABLES
    MLX_AVAILABLE,    \* whether `import mlx.core` succeeded when the module was loaded
    nodes,            \* the Tensor objects created so far, by identity 1..Len(nodes)
    grad_is_enabled,  \* Tensor.grad_is_enabled, the process-wide switch
    previous,         \* no_grad object -> <<>> before its first entry, else <<saved flag>>
    active,           \* the no_grad objects of the `with` blocks entered and not left
    entered,          \* for each active block, the flag just before it was entered
    pc,               \* "idle", or where backward() is: "tsort" or "grads"
    root,             \* the receiver of the running backward() (0 when none ran)
    frames,           \* the _tsort calls in progress: [curr, todo = parents not yet looped over]
    visited,          \* backward's visited set
    recursion_stack,  \* backward's recursion_stack set
    ordering,         \* backward's ordering list
    pos,              \* position in ordering of the next node of the reversed loop
    invoked,          \* the grad_fn calls of the last backward(): [node, grad = node.grad as read]
    before,           \* the store as it was when the last backward() was called
    nback,            \* backward() calls made
    err               \* "" or the exception the last call raised

vars == <<MLX_AVAILABLE, nodes, grad_is_enabled, previous, active, entered, pc, root, frames,
          visited, recursion_stack, ordering, pos, invoked, before, nback, err>>

sched == <<pc, root, frames, visited, recursion_stack, ordering, pos, invoked, before,
           nback>>
scopes == <<previous, active, entered>>

Ids == 1..Len(nodes)

\* the exceptions the modelled calls raise
TrackingDisabled == "ValueError: cannot backward when gradient calculation is disabled."
GraphCycle == "ValueError: Graph contains a cycle"
ShapeError == "ValueError: operands could not be broadcast together"
NoneError == "TypeError: NoneType"
AttributeError == "AttributeError: NoneType"
ZeroDivision == "ZeroDivisionError"

--------------------------------------------------------------------------
(* Tensor.__init__, _reset_grad, set_requires_grad. *)

\* Tensor(data, _children=children, _op=op, requires_grad=rg, use_np=np) built while
\* the store is ns and the switch is `enabled`
Tensor(ns, enabled, data, children, op, rg, np) ==
    [data          |-> data,
     is_np_tensor  |-> np,
     _prev         |-> {c \in children : ns[c].requires_grad},
     _op           |-> op,
     requires_grad |-> rg,
     grad          |-> IF rg /\ enabled THEN zeros_like(data) ELSE None,
     grad_fn       |-> None,
     _backward     |-> None]

_reset_grad(n) == [n EXCEPT !.grad = zeros_like(n.data)]

set_requires_grad(n, val) ==
    LET m == IF n.grad = None /\ val THEN _reset_grad(n) ELSE n
    IN  [m EXCEPT !.requires_grad = val]

--------------------------------------------------------------------------
(* The gradient closures.  A closure is a record naming the function the  *)
(* operation defined and the objects it captured; running it against a    *)
(* store gives [ns, err]: the store after it, and the exception if any.   *)

Ok(ns) == [ns |-> ns, err |-> ""]
Raise(ns, e) == [ns |-> ns, err |-> e]

\* ns[p].grad += c with numpy's in-place broadcasting rules
IAdd(ns, p, c) ==
    IF ns[p].grad = None \/ c = None THEN Raise(ns, NoneError)
    ELSE IF ~Broadcastable(c.shape, ns[p].grad.shape) THEN Raise(ns, ShapeError)
    ELSE Ok([ns EXCEPT ![p].grad = TAdd(ns[p].grad, broadcast_to(c, ns[p].grad.shape))])

\* ns[p].grad[lo:hi] += c along axis 0
IAddRows(ns, p, lo, hi, c) ==
    LET g == ns[p].grad
        row == Prod(Tail(g.shape))
        part == Rows(g, lo, hi)
    IN  IF g = None \/ c = None THEN Raise(ns, NoneError)
        ELSE IF ~Broadcastable(c.shape, part.shape) THEN Raise(ns, ShapeError)
        ELSE LET b == broadcast_to(c, part.shape)
             IN  Ok([ns EXCEPT ![p].grad.v =
                    [k \in 1..Len(g.v) |->
                        IF k > lo * row /\ k <= hi * row
                        THEN QAdd(g.v[k], b.v[k - lo * row]) ELSE g.v[k]]])

\* a * b with broadcasting, for b broadcastable to a's shape
BMul(a, b) == TMul(a, broadcast_to(b, a.shape))

\* run first, then second on the store first leaves, unless first raised
Then(r, second(_)) == IF r.err # "" THEN r ELSE second(r.ns)

\* is the Python value `axis` truthy
Truthy(axis) ==
    CASE axis.kind = "none"  -> FALSE
      [] axis.kind = "int"   -> axis.a # 0
      [] axis.kind = "tuple" -> axis.t # <<>>

\* a ** b through _neg_pow: 1 / (a ** abs(b)) if b < 0 else a ** b
_neg_pow(t, b) ==
    [shape |-> t.shape,
     v |-> [k \in 1..Len(t.v) |->
              IF b < 0 THEN QInv(QPowNat(t.v[k], -b)) ELSE QPowNat(t.v[k], b)]]

_getitem_backward(ns, f) ==
    IAddRows(ns, f.self, f.indices, f.indices + 1,
             IF ns[f.out].grad = None THEN None
             ELSE expand_dims(ns[f.out].grad, {0}))

_sum_backward(ns, f) ==
    LET g == ns[f.self].grad
        og == ns[f.out].grad
        ex_axis == IF Truthy(f.axis) THEN f.axis ELSE NoAxis
        src == IF Truthy(ex_axis)
               THEN expand_dims(og, AxisSet(ex_axis, Len(og.shape)))
               ELSE og
    IN  IF g = None \/ og = None THEN Raise(ns, NoneError)
        ELSE IF ~Broadcastable(src.shape, g.shape) THEN Raise(ns, ShapeError)
        ELSE IAdd(ns, f.self, BMul(ones_like(g), src))

_transpose_backward(ns, f) ==
    IAdd(ns, f.self,
         IF ns[f.out].grad = None THEN None
         ELSE transpose(ns[f.out].grad, f.axes))

_reshape_backward(ns, f) ==
    IAdd(ns, f.self,
         IF ns[f.out].grad = None THEN None
         ELSE reshape(ns[f.out].grad, ns[f.self].data.shape))

_masked_fill_backward(ns, f) ==
    IAdd(ns, f.self,
         IF ns[f.out].grad = None THEN None
         ELSE where(f.mask, Q(0), ns[f.out].grad))

_split_backward(ns, f) ==
    IF ns[f.self].requires_grad
    THEN IAddRows(ns, f.self, f.lo, f.hi, ns[f.out].grad)
    ELSE Ok(ns)

\* for two 2-D operands: le_axis, re_axis and rese_axis are empty, and there are no
\* batch axes (shape[:-2] is empty), so expand_dims and the sum over l and r change
\* nothing; self.grad and other.grad are assigned, not added to
_matmul_backward(ns, f) ==
    LET left(s) ==
            IF ~s[f.self].requires_grad THEN Ok(s)
            ELSE IF s[f.out].grad = None THEN Raise(s, NoneError)
            ELSE Ok([s EXCEPT ![f.self].grad =
                    reshape(matmul(s[f.out].grad, swapaxes(s[f.other].data)),
                            s[f.self].data.shape)])
        right(s) ==
            IF ~s[f.other].requires_grad THEN Ok(s)
            ELSE IF s[f.out].grad = None THEN Raise(s, NoneError)
            ELSE Ok([s EXCEPT ![f.other].grad =
                    reshape(matmul(swapaxes(s[f.self].data), s[f.out].grad),
                            s[f.other].data.shape)])
    IN  Then(left(ns), right)

_add_backward_scalar(ns, f) == IAdd(ns, f.self, ns[f.out].grad)

_add_backward_same(ns, f) ==
    LET left(s) == IF s[f.self].requires_grad
                   THEN IAdd(s, f.self, s[f.out].grad) ELSE Ok(s)
        right(s) == IF s[f.other].requires_grad
                    THEN IAdd(s, f.other, s[f.out].grad) ELSE Ok(s)
    IN  Then(left(ns), right)

_mul_backward_scalar(ns, f) ==
    IAdd(ns, f.self,
         IF ns[f.out].grad = None THEN None ELSE TScale(f.c, ns[f.out].grad))

_mul_backward_same(ns, f) ==
    LET contrib(s, d) == IF s[f.out].grad = None THEN None
                         ELSE TMul(s[d].data, s[f.out].grad)
        left(s) == IF s[f.self].requires_grad
                   THEN IAdd(s, f.self, contrib(s, f.other)) ELSE Ok(s)
        right(s) == IF s[f.other].requires_grad
                    THEN IAdd(s, f.other, contrib(s, f.self)) ELSE Ok(s)
    IN  Then(left(ns), right)

_pow_backward(ns, f) ==
    IAdd(ns, f.self,
         IF ns[f.out].grad = None THEN None
         ELSE TMul(TScale(Q(f.p), _neg_pow(ns[f.self].data, f.p - 1)), ns[f.out].grad))

\* node.grad_fn()
CallClosure(ns, f) ==
    CASE f.fn = "_getitem_backward"     -> _getitem_backward(ns, f)
      [] f.fn = "_sum_backward"         -> _sum_backward(ns, f)
      [] f.fn = "_transpose_backward"   -> _transpose_backward(ns, f)
      [] f.fn = "_reshape_backward"     -> _reshape_backward(ns, f)
      [] f.fn = "_masked_fill_backward" -> _masked_fill_backward(ns, f)
      [] f.fn = "_split_backward"       -> _split_backward(ns, f)
      [] f.fn = "_matmul_backward"      -> _matmul_backward(ns, f)
      [] f.fn = "_add_backward_scalar"  -> _add_backward_scalar(ns, f)
      [] f.fn = "_add_backward_same"    -> _add_backward_same(ns, f)
      [] f.fn = "_mul_backward_scalar"  -> _mul_backward_scalar(ns, f)
      [] f.fn = "_mul_backward_same"    -> _mul_backward_same(ns, f)
      [] f.fn = "_pow_backward"         -> _pow_backward(ns, f)

--------------------------------------------------------------------------
(* Tensor.backward.  The call is followed step by step: one step per      *)
(* iteration of _tsort's loop over curr._prev (a set, so the order of its *)
(* elements is not fixed) or return from _tsort, then one step per node   *)
(* of the reversed ordering.  No other call runs while pc # "idle".       *)

\* backward() without its guard
BackwardAllowed_Unchecked == TRUE

\* the guard at the head of backward(): tracking must be enabled
BackwardAllowed == grad_is_enabled

\* _tsort(child) without the `curr not in visited` test: a shared parent is
\* descended into again from each of its consumers
TsortCall_Revisit(child, rest) ==
    IF child \in recursion_stack
    THEN /\ pc' = "idle"
         /\ err' = GraphCycle
         /\ frames' = <<>>
         /\ UNCHANGED <<nodes, visited, recursion_stack, ordering, pos>>
    ELSE /\ visited' = visited \cup {child}
         /\ recursion_stack' = recursion_stack \cup {child}
         /\ frames' = Append(rest, [curr |-> child, todo |-> nodes[child]._prev])
         /\ UNCHANGED <<nodes, pc, err, ordering, pos>>

\* _tsort(child) without the recursion_stack test: only `visited` stops the descent
TsortCall_NoCycleTest(child, rest) ==
    IF child \notin visited
    THEN /\ visited' = visited \cup {child}
         /\ recursion_stack' = recursion_stack \cup {child}
         /\ frames' = Append(rest, [curr |-> child, todo |-> nodes[child]._prev])
         /\ UNCHANGED <<nodes, pc, err, ordering, pos>>
    ELSE /\ frames' = rest
         /\ UNCHANGED <<nodes, pc, err, visited, recursion_stack, ordering, pos>>

\* _tsort(child) called from the loop, the caller's frame already advanced to rest:
\* raise on a node of the recursion stack, descend into an unvisited node,
\* return at once from a visited one
TsortCall(child, rest) ==
    IF child \in recursion_stack
    THEN /\ pc' = "idle"
         /\ err' = GraphCycle
         /\ frames' = <<>>
         /\ UNCHANGED <<nodes, visited, recursion_stack, ordering, pos>>
    ELSE IF child \notin visited
    THEN /\ visited' = visited \cup {child}
         /\ recursion_stack' = recursion_stack \cup {child}
         /\ frames' = Append(rest, [curr |-> child, todo |-> nodes[child]._prev])
         /\ UNCHANGED <<nodes, pc, err, ordering, pos>>
    ELSE /\ frames' = rest
         /\ UNCHANGED <<nodes, pc, err, visited, recursion_stack, ordering, pos>>

\* the end of _tsort(curr)'s body: leave the recursion stack, append to the ordering;
\* when the outermost call returns, backward() seeds self.grad and starts the loop
TsortReturn(curr, rest) ==
    /\ recursion_stack' = recursion_stack \ {curr}
    /\ ordering' = Append(ordering, curr)
    /\ frames' = rest
    /\ IF rest = <<>>
       THEN /\ nodes' = [nodes EXCEPT ![root].grad = ones_like(nodes[root].data)]
            /\ pc' = "grads"
            /\ pos' = Len(ordering')
       ELSE UNCHANGED <<nodes, pc, pos>>
    /\ UNCHANGED <<visited, err>>

\* x.backward() on node r
Backward(r) ==
    /\ pc = "idle"
    /\ nback < MaxBackward
    /\ r \in Ids
    /\ nback' = nback + 1
    /\ IF ~BackwardAllowed
       THEN /\ err' = TrackingDisabled
            /\ UNCHANGED <<nodes, pc, root, frames, visited, recursion_stack,
                           ordering, pos, invoked, before>>
       ELSE /\ root' = r
            /\ before' = nodes
            /\ ordering' = <<>>
            /\ visited' = {r}
            /\ recursion_stack' = {r}
            /\ frames' = <<[curr |-> r, todo |-> nodes[r]._prev]>>
            /\ invoked' = <<>>
            /\ pc' = "tsort"
            /\ err' = ""
            /\ UNCHANGED <<nodes, pos>>
    /\ UNCHANGED <<MLX_AVAILABLE, grad_is_enabled, scopes>>

TsortStep ==
    /\ pc = "tsort"
    /\ LET top == frames[Len(frames)]
           below == SubSeq(frames, 1, Len(frames) - 1)
       IN  IF top.todo = {}
           THEN TsortReturn(top.curr, below)
           ELSE \E child \in top.todo :
                   TsortCall(child, Append(below, [top EXCEPT !.todo = @ \ {child}]))
    /\ UNCHANGED <<MLX_AVAILABLE, grad_is_enabled, scopes, root, invoked, before, nback>>

\* one iteration of `for node in reversed(ordering)`
GradStep ==
    /\ pc = "grads"
    /\ LET node == ordering[pos]
           f == nodes[node].grad_fn
           r == IF f = None THEN Ok(nodes) ELSE CallClosure(nodes, f)
       IN  /\ nodes' = r.ns
           /\ err' = r.err
           /\ invoked' = IF f = None THEN invoked
                         ELSE Append(invoked, [node |-> node, grad |-> nodes[node].grad])
           /\ pos' = pos - 1
           /\ pc' = IF r.err # "" \/ pos = 1 THEN "idle" ELSE "grads"
    /\ UNCHANGED <<MLX_AVAILABLE, grad_is_enabled, scopes, root, frames, visited,
                   recursion_stack, ordering, before, nback>>

--------------------------------------------------------------------------
(* The calls of the public interface other than backward().  Each returns *)
(* at once: it appends the nodes it built to the store, or raises.        *)

\* the backend module a node's `_d` is: numpy for use_np, else mlx when it imported
_d(n) == IF n.is_np_tensor \/ ~MLX_AVAILABLE THEN "np" ELSE "mx"

AssertionError == "AssertionError"

Returns(outs) ==
    /\ nodes' = nodes \o outs
    /\ err' = ""
    /\ UNCHANGED <<MLX_AVAILABLE, grad_is_enabled, scopes, sched>>

Raises(e) ==
    /\ err' = e
    /\ UNCHANGED <<nodes, MLX_AVAILABLE, grad_is_enabled, scopes, sched>>

\* a call is made only between calls: backward() is not re-entered
CanCall == pc = "idle"

\* the step leaves at most n nodes in the store
Within(n) == Len(nodes') <= n

NextId == Len(nodes) + 1

\* Tensor(data, requires_grad=rg, use_np=np)
NewTensor(data, rg, np) ==
    /\ CanCall
    /\ Returns(<<Tensor(nodes, grad_is_enabled, data, {}, "", rg, np)>>)

\* x.set_requires_grad(val) for a boolean val
SetRequiresGrad(x, val) ==
    /\ pc = "idle"
    /\ nodes' = [nodes EXCEPT ![x] = set_requires_grad(@, val)]
    /\ err' = ""
    /\ UNCHANGED <<MLX_AVAILABLE, grad_is_enabled, scopes, sched>>

\* the node x[indices] returns, for an integer index
getitem_out(x, indices) ==
    LET self == nodes[x]
        out == Tensor(nodes, grad_is_enabled, Item(self.data, indices), {x}, "getitem",
                      self.requires_grad, self.is_np_tensor)
    IN  IF self.requires_grad /\ grad_is_enabled
        THEN [out EXCEPT
                !._backward = [fn |-> "_getitem_backward", self |-> x,
                               indices |-> indices, out |-> NextId],
                !.requires_grad = TRUE]
        ELSE out

\* x[indices]
GetItem(x, indices) ==
    /\ CanCall
    /\ Len(nodes[x].data.shape) >= 1
    /\ indices \in 0..(nodes[x].data.shape[1] - 1)
    /\ Returns(<<getitem_out(x, indices)>>)

\* t with row i (along axis 0) replaced by b, b broadcast to the row's shape
SetRow(t, i, b) ==
    LET row == Prod(Tail(t.shape))
        c == broadcast_to(b, Tail(t.shape))
    IN  [t EXCEPT !.v = [k \in 1..Len(t.v) |->
            IF k > i * row /\ k <= (i + 1) * row THEN c.v[k - i * row] ELSE t.v[k]]]

\* x[indices] = y for an integer index: the data is assigned first, then the grad
SetItem(x, indices, y) ==
    /\ CanCall
    /\ Len(nodes[x].data.shape) >= 1
    /\ indices \in 0..(nodes[x].data.shape[1] - 1)
    /\ LET self == nodes[x]
           other == nodes[y]
           assigned == [nodes EXCEPT ![x].data = SetRow(self.data, indices, other.data)]
       IN  IF _d(self) # _d(other) THEN Raises(AssertionError)
           ELSE IF ~Broadcastable(other.data.shape, Tail(self.data.shape))
           THEN Raises(ShapeError)
           ELSE /\ UNCHANGED <<MLX_AVAILABLE, grad_is_enabled, scopes, sched>>
                /\ IF other.grad = None
                   \* other.grad.astype on None
                   THEN nodes' = assigned /\ err' = AttributeError
                   ELSE IF assigned[x].grad = None
                   \* self.grad[indices] = ... on None
                   THEN nodes' = assigned /\ err' = NoneError
                   ELSE /\ nodes' = [assigned EXCEPT
                                ![x].grad = SetRow(assigned[x].grad, indices, other.grad)]
                        /\ err' = ""

\* the node x.sum(axis) returns, were it the node `id`
sum_out(x, axis, id) ==
    LET self == nodes[x]
        out == Tensor(nodes, grad_is_enabled, sum(self.data, axis), {x}, "sum",
                      FALSE, self.is_np_tensor)
    IN  IF self.requires_grad /\ grad_is_enabled
        THEN set_requires_grad(
                [out EXCEPT !.grad_fn = [fn |-> "_sum_backward", self |-> x,
                                         axis |-> axis, out |-> id]], TRUE)
        ELSE out

\* x.sum(axis=axis)
Sum(x, axis) ==
    /\ CanCall
    /\ AxisSet(axis, Len(nodes[x].data.shape)) \subseteq 0..(Len(nodes[x].data.shape) - 1)
    /\ Returns(<<sum_out(x, axis, NextId)>>)

\* the node x * c returns for a scalar c, x being the node record `self` with identity xid
mul_scalar_out(ns, xid, c, id) ==
    LET self == ns[xid]
        out == Tensor(ns, grad_is_enabled, TScale(c, self.data), {xid}, "*",
                      FALSE, self.is_np_tensor)
    IN  IF self.requires_grad /\ grad_is_enabled
        THEN set_requires_grad(
                [out EXCEPT !.grad_fn = [fn |-> "_mul_backward_scalar", self |-> xid,
                                         c |-> c, out |-> id]], TRUE)
        ELSE out

\* the N that mean(axis) divides by
mean_N(shape, axis) ==
    CASE axis.kind = "none"  -> Size(shape)
      [] axis.kind = "int"   -> shape[axis.a + 1]
      [] axis.kind = "tuple" -> Prod(axis.t)

\* x.mean(axis=axis): self.sum(axis) / N, that is sum * (N ** -1)
Mean(x, axis) ==
    /\ CanCall
    /\ AxisSet(axis, Len(nodes[x].data.shape)) \subseteq 0..(Len(nodes[x].data.shape) - 1)
    /\ LET N == mean_N(nodes[x].data.shape, axis)
           s == sum_out(x, axis, NextId)
           ns == Append(nodes, s)
       IN  IF N = 0 THEN Raises(ZeroDivision)
           ELSE Returns(<<s, mul_scalar_out(ns, NextId, QInv(Q(N)), NextId + 1)>>)

IsPerm(axes, n) == Len(axes) = n /\ Range(axes) = 0..(n - 1)

\* x.T(axes)
T(x, axes) ==
    /\ CanCall
    /\ IF axes = None THEN TRUE ELSE IsPerm(axes, Len(nodes[x].data.shape))
    /\ LET self == nodes[x]
           out == Tensor(nodes, grad_is_enabled, transpose(self.data, axes), {x}, "T",
                         FALSE, self.is_np_tensor)
       IN  Returns(<<IF self.requires_grad /\ grad_is_enabled
                     THEN set_requires_grad(
                            [out EXCEPT !.grad_fn = [fn |-> "_transpose_backward",
                                self |-> x, axes |-> axes, out |-> NextId]], TRUE)
                     ELSE out>>)

\* x.reshape(*shape)
Reshape(x, shape) ==
    /\ CanCall
    /\ Size(shape) = Size(nodes[x].data.shape)
    /\ LET self == nodes[x]
           out == Tensor(nodes, grad_is_enabled, reshape(self.data, shape), {x}, "reshape",
                         FALSE, self.is_np_tensor)
       IN  Returns(<<IF self.requires_grad /\ grad_is_enabled
                     THEN set_requires_grad(
                            [out EXCEPT !.grad_fn = [fn |-> "_reshape_backward",
                                self |-> x, out |-> NextId]], TRUE)
                     ELSE out>>)

\* x.masked_fill(mask, value), the mask given per element in row-major order
MaskedFill(x, mask, value) ==
    /\ CanCall
    /\ Len(mask) = Len(nodes[x].data.v)
    /\ LET self == nodes[x]
           out == Tensor(nodes, grad_is_enabled, where(mask, value, self.data), {x},
                         "mafill", self.requires_grad, self.is_np_tensor)
       IN  Returns(<<IF self.requires_grad /\ grad_is_enabled
                     THEN set_requires_grad(
                            [out EXCEPT !.grad_fn = [fn |-> "_masked_fill_backward",
                                self |-> x, mask |-> mask, out |-> NextId]], TRUE)
                     ELSE out>>)

\* x.cat(others, dim=0), others a sequence of nodes
Cat(x, others) ==
    /\ CanCall
    /\ LET tocat == <<x>> \o others
           self == nodes[x]
           out == Tensor(nodes, grad_is_enabled,
                         concatenate([i \in 1..Len(tocat) |-> nodes[tocat[i]].data]),
                         Range(tocat), "cat", FALSE, self.is_np_tensor)
       IN  /\ \A i \in 1..Len(tocat) :
                /\ Len(nodes[tocat[i]].data.shape) >= 1
                /\ Tail(nodes[tocat[i]].data.shape) = Tail(self.data.shape)
           /\ IF \E i \in 1..Len(others) : _d(nodes[others[i]]) # _d(self)
              THEN Raises(AssertionError)
              ELSE IF \A i \in 1..Len(tocat) : ~nodes[tocat[i]].requires_grad
              THEN Returns(<<out>>)
              ELSE IF grad_is_enabled
              \* grads = split(out.grad, splits, axis=dim) while out.grad is None
              THEN Raises(NoneError)
              ELSE Returns(<<out>>)

\* x.split(sections, dim=0)
Split(x, sections) ==
    /\ CanCall
    /\ Len(nodes[x].data.shape) >= 1
    /\ sections >= 1
    /\ nodes[x].data.shape[1] % sections = 0
    /\ LET self == nodes[x]
           datas == split(self.data, sections)
           m == self.data.shape[1] \div sections
           part(i) == Tensor(nodes, grad_is_enabled, datas[i], {x}, "split",
                             self.requires_grad, self.is_np_tensor)
           tracked(i) == set_requires_grad(
                [part(i) EXCEPT !.grad_fn = [fn |-> "_split_backward", self |-> x,
                    lo |-> (i - 1) * m, hi |-> i * m, out |-> Len(nodes) + i]], TRUE)
       IN  Returns([i \in 1..sections |->
                IF self.requires_grad /\ grad_is_enabled THEN tracked(i) ELSE part(i)])

\* x @ y for two 2-D tensors
MatMul(x, y) ==
    /\ CanCall
    /\ Len(nodes[x].data.shape) = 2 /\ Len(nodes[y].data.shape) = 2
    /\ nodes[x].data.shape[2] = nodes[y].data.shape[1]
    /\ LET self == nodes[x]
           other == nodes[y]
           out == Tensor(nodes, grad_is_enabled, matmul(self.data, other.data), {x, y},
                         "@", FALSE, self.is_np_tensor)
       IN  IF _d(self) # _d(other) THEN Raises(AssertionError)
           ELSE IF ~self.requires_grad /\ ~other.requires_grad THEN Returns(<<out>>)
           ELSE IF grad_is_enabled
           THEN Returns(<<set_requires_grad(
                    [out EXCEPT !.grad_fn = [fn |-> "_matmul_backward", self |-> x,
                        other |-> y, out |-> NextId]], TRUE)>>)
           ELSE Returns(<<out>>)

\* x + c for a scalar c
AddScalar(x, c) ==
    /\ CanCall
    /\ LET self == nodes[x]
           out == Tensor(nodes, grad_is_enabled, TAdd(self.data, full_like(self.data, c)),
                         {x}, "+", FALSE, self.is_np_tensor)
       IN  Returns(<<IF self.requires_grad /\ grad_is_enabled
                     THEN set_requires_grad(
                            [out EXCEPT !.grad_fn = [fn |-> "_add_backward_scalar",
                                self |-> x, out |-> NextId]], TRUE)
                     ELSE out>>)

\* the node a tensor-tensor x + y or x * y of equal shapes returns: the closure is
\* attached under grad_is_enabled, set_requires_grad(True) is called after that block
binary_out(x, y, op, data, fn) ==
    LET self == nodes[x]
        other == nodes[y]
        out == Tensor(nodes, grad_is_enabled, data, {x, y}, op, FALSE, FALSE)
        withfn == IF grad_is_enabled
                  THEN [out EXCEPT !.grad_fn = [fn |-> fn, self |-> x, other |-> y,
                                                out |-> NextId]]
                  ELSE out
    IN  IF ~self.requires_grad /\ ~other.requires_grad THEN out
        ELSE set_requires_grad(withfn, TRUE)

\* x + y for two tensors of one shape
Add(x, y) ==
    /\ CanCall
    /\ nodes[x].data.shape = nodes[y].data.shape
    /\ IF _d(nodes[x]) # _d(nodes[y]) THEN Raises(AssertionError)
       ELSE Returns(<<binary_out(x, y, "+", TAdd(nodes[x].data, nodes[y].data),
                                 "_add_backward_same")>>)

\* x * c for a scalar c
MulScalar(x, c) ==
    /\ CanCall
    /\ Returns(<<mul_scalar_out(nodes, x, c, NextId)>>)

\* x * y for two tensors of one shape
Mul(x, y) ==
    /\ CanCall
    /\ nodes[x].data.shape = nodes[y].data.shape
    /\ IF _d(nodes[x]) # _d(nodes[y]) THEN Raises(AssertionError)
       ELSE Returns(<<binary_out(x, y, "*", TMul(nodes[x].data, nodes[y].data),
                                 "_mul_backward_same")>>)

\* x ** p for an integer p
Pow(x, p) ==
    /\ CanCall
    /\ (p < 1) => \A k \in 1..Len(nodes[x].data.v) : nodes[x].data.v[k] # Q(0)
    /\ LET self == nodes[x]
           out == Tensor(nodes, grad_is_enabled, _neg_pow(self.data, p), {x}, "pow",
                         FALSE, self.is_np_tensor)
       IN  Returns(<<IF self.requires_grad /\ grad_is_enabled
                     THEN set_requires_grad(
                            [out EXCEPT !.grad_fn = [fn |-> "_pow_backward",
                                self |-> x, p |-> p, out |-> NextId]], TRUE)
                     ELSE out>>)

--------------------------------------------------------------------------
(* no_grad: __enter__ and __exit__ of the object s.  `with` blocks nest,  *)
(* so the block left is always the innermost one entered.                 *)

Enter(s) ==
    /\ pc = "idle"
    /\ Len(active) < MaxDepth
    /\ previous' = [previous EXCEPT ![s] = <<grad_is_enabled>>]
    /\ grad_is_enabled' = FALSE
    /\ active' = Append(active, s)
    /\ entered' = Append(entered, grad_is_enabled)
    /\ err' = ""
    /\ UNCHANGED <<nodes, MLX_AVAILABLE, sched>>

\* __exit__(exc_type, ...): exc is "" on a normal exit, else the exception that ends
\* the block, which __exit__ lets propagate
Exit(exc) ==
    /\ pc = "idle"
    /\ active # <<>>
    /\ grad_is_enabled' = previous[active[Len(active)]][1]
    /\ active' = SubSeq(active, 1, Len(active) - 1)
    /\ entered' = SubSeq(entered, 1, Len(entered) - 1)
    /\ err' = exc
    /\ UNCHANGED <<nodes, MLX_AVAILABLE, previous, sched>>

IdleSched ==
    /\ pc = "idle"
    /\ root = 0
    /\ frames = <<>>
    /\ visited = {}
    /\ recursion_stack = {}
    /\ ordering = <<>>
    /\ pos = 0
    /\ invoked = <<>>
    /\ before = <<>>
    /\ nback = 0
    /\ err = ""

NoScopes ==
    /\ previous = [s \in 1..NumScopes |-> <<>>]
    /\ active = <<>>
    /\ entered = <<>>

--------------------------------------------------------------------------
(* The library in use: any sequence of calls, their arguments drawn from  *)
(* small sets.                                                            *)

Vec == [shape |-> <<2>>, v |-> <<Q(1), Q(2)>>]
Mat == [shape |-> <<2, 2>>, v |-> <<Q(1), Q(2), Q(3), Q(4)>>]

ExitArgs == {"", "Exception"}

Init ==
    /\ MLX_AVAILABLE \in BOOLEAN
    /\ nodes = <<>>
    /\ grad_is_enabled = TRUE
    /\ NoScopes
    /\ IdleSched

Construct == \E rg \in BOOLEAN : NewTensor(Mat, rg, TRUE)

Unary ==
    \E x \in Ids :
        \/ GetItem(x, 0)
        \/ \E axis \in {NoAxis, IntAxis(1)} : Sum(x, axis)
        \/ T(x, None)
        \/ Reshape(x, <<4>>)
        \/ MaskedFill(x, <<FALSE, TRUE, TRUE, FALSE>>, Q(0))
        \/ Split(x, 2)
        \/ AddScalar(x, Q(2))
        \/ MulScalar(x, Q(2))
        \/ Pow(x, 2)

Binary ==
    \E x \in Ids, y \in Ids :
        \/ MatMul(x, y)
        \/ Add(x, y)
        \/ Mul(x, y)
        \/ Cat(x, <<y>>)

Next ==
    \/ Construct /\ Within(MaxNodes)
    \/ Unary /\ Within(MaxNodes)
    \/ Binary /\ Within(MaxNodes)
    \/ Enter(1)
    \/ \E exc \in ExitArgs : Exit(exc)

Spec == Init /\ [][Next]_vars

--------------------------------------------------------------------------
(* The scheduler on its own, on graphs of gradient-tracking nodes in      *)
(* which a node has at most two parents.  A node with one parent is the   *)
(* result of `parent + 1`, a node with two the result of `a + b`.         *)
(* SpecSched draws every graph these calls build (a node's parents were   *)
(* created before it); SpecCycle draws every parent relation, which is    *)
(* what the same nodes hold after `_prev` was assigned to.                *)

Scalar(n) == [shape |-> <<>>, v |-> <<Q(n)>>]

ParentSets(N) == {P \in SUBSET (1..N) : Cardinality(P) <= 2}

GraphNode(i, P) ==
    LET a == CHOOSE x \in P : \A y \in P : x <= y
        b == CHOOSE x \in P : \A y \in P : x >= y
    IN  [data          |-> Scalar(1),
         is_np_tensor  |-> TRUE,
         _prev         |-> P,
         _op           |-> IF P = {} THEN "" ELSE "+",
         requires_grad |-> TRUE,
         grad          |-> zeros_like(Scalar(1)),
         grad_fn       |-> CASE Cardinality(P) = 0 -> None
                             [] Cardinality(P) = 1 ->
                                  [fn |-> "_add_backward_scalar", self |-> a, out |-> i]
                             [] Cardinality(P) = 2 ->
                                  [fn |-> "_add_backward_same", self |-> a, other |-> b,
                                   out |-> i],
         _backward     |-> None]

InitSched ==
    /\ \E prev \in [1..MaxGraphNodes -> ParentSets(MaxGraphNodes)] :
          /\ \A i \in 1..MaxGraphNodes : prev[i] \subseteq 1..(i - 1)
          /\ nodes = [i \in 1..MaxGraphNodes |-> GraphNode(i, prev[i])]
    /\ MLX_AVAILABLE = FALSE
    /\ grad_is_enabled = TRUE
    /\ NoScopes
    /\ IdleSched

InitCycle ==
    /\ \E prev \in [1..MaxCycleNodes -> ParentSets(MaxCycleNodes)] :
          nodes = [i \in 1..MaxCycleNodes |-> GraphNode(i, prev[i])]
    /\ MLX_AVAILABLE = FALSE
    /\ grad_is_enabled = TRUE
    /\ NoScopes
    /\ IdleSched

NextCycle ==
    \/ \E r \in Ids : Backward(r)
    \/ TsortStep
    \/ GradStep

\* backward() on the built graphs, inside and outside no_grad blocks
NextSched ==
    \/ NextCycle
    \/ Enter(1)
    \/ \E exc \in ExitArgs : Exit(exc)

SpecSched == InitSched /\ [][NextSched]_vars

SpecCycle == InitCycle /\ [][NextCycle]_vars

\* backward() runs to its end once called: the interpreter does not stop mid-call
FairCycle == SpecCycle /\ WF_vars(TsortStep) /\ WF_vars(GradStep)

--------------------------------------------------------------------------
(* no_grad blocks on their own: NumScopes no_grad objects, entered in any *)
(* nesting up to MaxDepth, an object possibly entered again while it is   *)
(* active (`with ng: ... with ng: ...`), a tensor constructed and its      *)
(* requires_grad set in between.                                          *)

InitScopes ==
    /\ MLX_AVAILABLE = FALSE
    /\ nodes = <<>>
    /\ grad_is_enabled = TRUE
    /\ NoScopes
    /\ IdleSched

NextScopes ==
    \/ \E s \in 1..NumScopes : Enter(s)
    \/ \E exc \in ExitArgs : Exit(exc)
    \/ \E rg \in BOOLEAN : NewTensor(Vec, rg, TRUE) /\ Within(1)
    \/ \E x \in Ids, val \in BOOLEAN : SetRequiresGrad(x, val)

SpecScopes == InitScopes /\ [][NextScopes]_vars

--------------------------------------------------------------------------
(* Gradients through built graphs: 2 x 2 leaves, the operations that      *)
(* combine them, and backward() from any node.                            *)

InitGrad ==
    /\ MLX_AVAILABLE = FALSE
    /\ nodes = <<>>
    /\ grad_is_enabled = TRUE
    /\ NoScopes
    /\ IdleSched

NextGrad ==
    \/ \E rg \in BOOLEAN : NewTensor(Mat, rg, TRUE) /\ Within(MaxNodes)
    \/ \E x \in Ids : GetItem(x, 0) /\ Within(MaxNodes)
    \/ \E x \in Ids : MulScalar(x, Q(2)) /\ Within(MaxNodes)
    \/ \E x \in Ids, y \in Ids : Add(x, y) /\ Within(MaxNodes)
    \/ \E x \in Ids, y \in Ids : Mul(x, y) /\ Within(MaxNodes)
    \/ \E x \in Ids, y \in Ids : MatMul(x, y) /\ Within(MaxNodes)
    \/ \E r \in Ids : Backward(r)
    \/ TsortStep
    \/ GradStep

SpecGrad == InitGrad /\ [][NextGrad]_vars

--------------------------------------------------------------------------
(* split and cat: a 2 x 2 tensor, its halves along axis 0, concatenations *)
(* of any two nodes, and backward() from any node.                        *)

NextRoundTrip ==
    \/ \E rg \in BOOLEAN : NewTensor(Mat, rg, TRUE) /\ Within(MaxRoundTrip)
    \/ \E x \in Ids : Split(x, 2) /\ Within(MaxRoundTrip)
    \/ \E x \in Ids, y \in Ids : Cat(x, <<y>>) /\ Within(MaxRoundTrip)
    \/ \E r \in Ids : Backward(r)
    \/ TsortStep
    \/ GradStep

SpecRoundTrip == InitGrad /\ [][NextRoundTrip]_vars

--------------------------------------------------------------------------
(* Transposition: a 1 x 2 x 3 tensor, every permutation of its axes (and  *)
(* the default reversal), transposes of transposes, and backward().       *)

Box == [shape |-> <<1, 2, 3>>, v |-> <<Q(1), Q(2), Q(3), Q(4), Q(5), Q(6)>>]

Perms == {p \in [1..3 -> 0..2] : IsPerm(p, 3)}

NextT ==
    \/ \E rg \in BOOLEAN : NewTensor(Box, rg, TRUE) /\ Within(MaxNodes)
    \/ \E x \in Ids, axes \in Perms \cup {None} : T(x, axes) /\ Within(MaxNodes)
    \/ \E r \in Ids : Backward(r)
    \/ TsortStep
    \/ GradStep

SpecT == InitGrad /\ [][NextT]_vars

--------------------------------------------------------------------------
(* mean: 2 x 2 x 2 and 2 x 2 tensors, averaged over no axis, one axis or   *)
(* a tuple of axes; means of means.                                       *)

Cube == [shape |-> <<2, 2, 2>>,
         v |-> <<Q(1), Q(2), Q(3), Q(4), Q(5), Q(6), Q(7), Q(8)>>]

MeanAxes ==
    {NoAxis, IntAxis(0), IntAxis(1), TupleAxis(<<1>>), TupleAxis(<<0, 1>>),
     TupleAxis(<<1, 2>>)}

NextMean ==
    \/ \E data \in {Mat, Cube}, rg \in BOOLEAN :
            NewTensor(data, rg, TRUE) /\ Within(MaxNodes)
    \/ \E x \in Ids, axis \in MeanAxes : Mean(x, axis) /\ Within(MaxNodes)

SpecMean == InitGrad /\ [][NextMean]_vars

--------------------------------------------------------------------------
(* requires_grad and the switch together: leaves constructed inside and   *)
(* outside a no_grad block, set_requires_grad on any node, scalar         *)
(* products and sums of nodes.                                            *)

NextFlags ==
    \/ \E rg \in BOOLEAN : NewTensor(Vec, rg, TRUE) /\ Within(MaxNodes)
    \/ \E x \in Ids, val \in BOOLEAN : SetRequiresGrad(x, val)
    \/ \E x \in Ids : MulScalar(x, Q(2)) /\ Within(MaxNodes)
    \/ \E x \in Ids, y \in Ids : Add(x, y) /\ Within(MaxNodes)
    \/ Enter(1)
    \/ Exit("")

SpecFlags == InitGrad /\ [][NextFlags]_vars

(* The same with backward() from any node, over scalar products only.     *)

NextLeafScope ==
    \/ \E rg \in BOOLEAN : NewTensor(Vec, rg, TRUE) /\ Within(MaxNodes)
    \/ \E x \in Ids, val \in BOOLEAN : SetRequiresGrad(x, val)
    \/ \E x \in Ids : MulScalar(x, Q(2)) /\ Within(MaxNodes)
    \/ Enter(1)
    \/ Exit("")
    \/ \E r \in Ids : Backward(r)
    \/ TsortStep
    \/ GradStep

SpecLeafScope == InitGrad /\ [][NextLeafScope]_vars

--------------------------------------------------------------------------
(* Indexed assignment: 2 x 2 and 2-element tensors, with and without a    *)
(* gradient buffer, one assigned into a row of another.                   *)

NextSetItem ==
    \/ \E data \in {Mat, Vec}, rg \in BOOLEAN :
            NewTensor(data, rg, TRUE) /\ Within(MaxNodes)
    \/ \E x \in Ids, indices \in 0..1, y \in Ids : SetItem(x, indices, y)

SpecSetItem == InitGrad /\ [][NextSetItem]_vars

--------------------------------------------------------------------------
(* The parent relation, as the claims speak of it. *)

\* the nodes reachable from the nodes of S through _prev, S included
RECURSIVE ReachFrom(_)
ReachFrom(S) ==
    LET grown == S \cup UNION {nodes[n]._prev : n \in S}
    IN  IF grown = S THEN S ELSE ReachFrom(grown)

Reach(r) == ReachFrom({r})

\* the nodes reachable from n through at least one parent edge
Ancestors(n) == ReachFrom(nodes[n]._prev)

\* some node reachable from r is its own ancestor
CycleFrom(r) == \E n \in Reach(r) : n \in Ancestors(n)

\* the consumers of n in the subgraph under r
Consumers(r, n) == {m \in Reach(r) : n \in nodes[m]._prev}

\* the grad of n once every consumer under the root has run its closure, in an
\* acyclic graph of additions: the seed for the root; for another node what it held
\* when backward() was called plus, from each consumer, the grad that consumer read
RECURSIVE Expected(_)
Expected(n) ==
    IF n = root THEN ones_like(nodes[n].data)
    ELSE LET RECURSIVE tot(_)
             tot(S) == IF S = {} THEN before[n].grad
                       ELSE LET m == CHOOSE x \in S : TRUE
                            IN  TAdd(Expected(m), tot(S \ {m}))
         IN  tot(Consumers(root, n))

C3_CycleRaises ==
    (pc = "tsort" /\ CycleFrom(root)) ~> (pc = "idle" /\ err = GraphCycle)

\* C3 witness: the cycle error was raised on a graph whose cycle is transitive (no
\* node is its own parent)
C3_Witness ==
    /\ root # 0 /\ pc = "idle" /\ err = GraphCycle
    /\ \A n \in Ids : n \notin nodes[n]._prev

\* C6: a backward() called while tracking is disabled raises and does nothing else:
\* the root's grad is not seeded, no closure is called, no node changes.
C6_DisabledBackwardOnlyRaises ==
    [][(pc = "idle" /\ ~grad_is_enabled /\ nback' = nback + 1) =>
          /\ err' = TrackingDisabled
          /\ pc' = "idle"
          /\ nodes' = nodes
          /\ invoked' = invoked]_vars

\* C6 witness: backward() was refused inside a no_grad block, on a store whose nodes
\* carry closures and gradient buffers
C6_Witness ==
    /\ err = TrackingDisabled /\ ~grad_is_enabled /\ active # <<>> /\ nback > 0
    /\ \E n \in Ids : nodes[n].grad_fn # None /\ nodes[n].grad # None

--------------------------------------------------------------------------
(* Claims on no_grad. *)

\* C4: when a no_grad block is left, normally or by an exception, the switch is
\* what it was immediately before that block was entered.
C4_ExitRestoresEntryValue ==
    [][(Len(active') < Len(active)) =>
          grad_is_enabled' = entered[Len(entered)]]_vars

\* C5: while tracking is disabled, an operation on operands that require gradient
\* returns nodes with no gradient buffer and no closure (every node of the store
\* requires gradient here, so every operand does).
C5_NoGradOutputsUntracked ==
    [][(pc = "idle" /\ ~grad_is_enabled /\ Len(nodes') > Len(nodes)
            /\ \A n \in Ids : nodes[n].requires_grad) =>
          \A i \in (Len(nodes) + 1)..Len(nodes') :
              nodes'[i]._op # "" =>
                  nodes'[i].grad = None /\ nodes'[i].grad_fn = None]_vars

--------------------------------------------------------------------------
(* Claims on the gradients. *)

\* what the closure f, reading the output gradient g, computes for its operand in
\* slot "self" or "other"
SlotShare(f, g, slot) ==
    CASE f.fn = "_add_backward_scalar" -> g
      [] f.fn = "_add_backward_same"   -> g
      [] f.fn = "_mul_backward_scalar" -> TScale(f.c, g)
      [] f.fn = "_mul_backward_same"   ->
            TMul(nodes[IF slot = "self" THEN f.other ELSE f.self].data, g)
      [] f.fn = "_matmul_backward"     ->
            IF slot = "self" THEN matmul(g, swapaxes(nodes[f.other].data))
            ELSE matmul(swapaxes(nodes[f.self].data), g)

\* the operand slots of the closures called in the last backward() that hold node n:
\* <<k, slot>> for the k-th call
SlotsOf(n) ==
    {ks \in (1..Len(invoked)) \X {"self", "other"} :
        LET f == nodes[invoked[ks[1]].node].grad_fn
        IN  /\ ks[2] \in DOMAIN f
            /\ f[ks[2]] = n}

\* what n held before the call plus the share of every slot of S
RECURSIVE SumShares(_, _)
SumShares(n, S) ==
    IF S = {} THEN before[n].grad
    ELSE LET ks == CHOOSE x \in S : TRUE
         IN  TAdd(SlotShare(nodes[invoked[ks[1]].node].grad_fn, invoked[ks[1]].grad, ks[2]),
                  SumShares(n, S \ {ks}))

\* C2: after backward(), a gradient-requiring node used in several operand slots
\* (a parent of several consumers, or both operands of one) holds what it held before
\* plus the sum of what every consuming closure computed for it.
C2_FanOutGradsSum ==
    (root # 0 /\ pc = "idle" /\ err = "") =>
        \A n \in Reach(root) \ {root} :
            (nodes[n].requires_grad /\ Cardinality(SlotsOf(n)) >= 2) =>
                nodes[n].grad = SumShares(n, SlotsOf(n))

\* C7: after y.backward() for y = x[indices], x requiring gradient and tracking
\* enabled, x.grad holds what it held before plus y's gradient at the indexed row.
C7_GetItemScatterAdds ==
    (root # 0 /\ pc = "idle" /\ err = "" /\ nodes[root]._backward # None) =>
        LET f == nodes[root]._backward
        IN  nodes[f.self].grad =
                IAddRows(before, f.self, f.indices, f.indices + 1,
                         expand_dims(nodes[root].grad, {0})).ns[f.self].grad

--------------------------------------------------------------------------
(* Claims on split and cat, transposition and mean. *)

\* nodes p and p + 1 are the two sections of x.split(2), x requiring gradient
Halves(x, p) ==
    /\ p + 1 \in Ids
    /\ nodes[x].requires_grad
    /\ \A i \in {p, p + 1} :
          /\ nodes[i]._op = "split"
          /\ nodes[i].grad_fn # None
          /\ nodes[i].grad_fn.self = x
    /\ nodes[p].grad_fn.lo = 0
    /\ nodes[p + 1].grad_fn.hi = nodes[x].data.shape[1]

\* C8: concatenating the two sections of x.split(2), x requiring gradient, returns a
\* node whose data is x.data, and backward() from that node adds the seed gradient
\* (ones) to x.grad.
C8_SplitCatRoundTrip ==
    /\ [][\A x \in Ids, p \in Ids :
            (Halves(x, p) /\ grad_is_enabled /\ Cat(p, <<p + 1>>)) =>
                /\ err' = ""
                /\ Len(nodes') = Len(nodes) + 1
                /\ nodes'[Len(nodes')].data = nodes[x].data]_vars
    /\ [](\A x \in Ids, p \in Ids :
            (/\ root # 0 /\ pc = "idle" /\ err = ""
             /\ Halves(x, p)
             /\ nodes[root]._op = "cat"
             /\ nodes[root]._prev = {p, p + 1}) =>
                nodes[x].grad = TAdd(before[x].grad, ones_like(nodes[x].data)))

\* the inverse of the permutation axes
Inverse(axes) ==
    [j \in 1..Len(axes) |-> (CHOOSE i \in 1..Len(axes) : axes[i] = j - 1) - 1]

\* C9: the closure of y = x.T(axes) adds to x.grad the gradient of y permuted by the
\* inverse of axes (the default reversal is its own inverse), without error.
C9_TransposeGradInverse ==
    [][(pc = "grads"
            /\ nodes[ordering[pos]].grad_fn # None
            /\ nodes[ordering[pos]].grad_fn.fn = "_transpose_backward") =>
          LET f == nodes[ordering[pos]].grad_fn
          IN  /\ err' = ""
              /\ nodes'[f.self].grad =
                    TAdd(nodes[f.self].grad,
                         transpose(nodes[f.out].grad,
                                   IF f.axes = None THEN None ELSE Inverse(f.axes)))]_vars

\* the number of elements along the reduced axes
ReducedCount(shape, axis) ==
    LET A == AxisSet(axis, Len(shape))
        RECURSIVE P(_)
        P(j) == IF j > Len(shape) THEN 1
                ELSE (IF (j - 1) \in A THEN shape[j] ELSE 1) * P(j + 1)
    IN  IF axis = NoAxis THEN Size(shape) ELSE P(1)

\* C10: x.mean(axis) returns the sum over the axes divided by the number of elements
\* along them: all elements without an axis, shape[axis] for an integer, the product
\* of shape[a] over the tuple's members a otherwise.
C10_MeanDividesByReducedCount ==
    [][\A x \in Ids, axis \in MeanAxes :
          Mean(x, axis) =>
              /\ err' = ""
              /\ nodes'[Len(nodes')].data =
                    TScale(QInv(Q(ReducedCount(nodes[x].data.shape, axis))),
                           sum(nodes[x].data, axis))]_vars

--------------------------------------------------------------------------
(* Claims on the flags of a node. *)

\* the operands a closure captured
Operands(f) == {f[k] : k \in DOMAIN f \cap {"self", "other"}}

\* C11: a node whose grad_fn is set has requires_grad = true and at least one operand
\* that requires gradient.
C11_ClosureImpliesRequiresGrad ==
    \A n \in Ids :
        nodes[n].grad_fn # None =>
            /\ nodes[n].requires_grad
            /\ \E p \in Operands(nodes[n].grad_fn) : nodes[p].requires_grad

--------------------------------------------------------------------------
(* Claims on failed calls. *)

\* C12: a call that ends with an error leaves the data and grad of every node as
\* they were before the call: a one-step call as in the state before the step,
\* backward() as in the state it started from.
C12_FailedCallChangesNothing ==
    [][/\ (pc = "idle" /\ pc' = "idle" /\ err' # "") =>
            \A n \in Ids :
                nodes'[n].data = nodes[n].data /\ nodes'[n].grad = nodes[n].grad
       /\ (pc # "idle" /\ pc' = "idle" /\ err' # "") =>
            \A n \in Ids :
                nodes'[n].data = before[n].data /\ nodes'[n].grad = before[n].grad]_vars

--------------------------------------------------------------------------
(* Claims on the backend. *)

\* C13: when all constructed tensors share one backend selection, every node an
\* operation returned carries that selection too, and no call is rejected by the
\* `self._d == other._d` assertion.
C13_OutputsKeepBackend ==
    (\A i \in Ids, j \in Ids :
        (nodes[i]._op = "" /\ nodes[j]._op = "") =>
            nodes[i].is_np_tensor = nodes[j].is_np_tensor) =>
        /\ \A i \in Ids, j \in Ids : nodes[i].is_np_tensor = nodes[j].is_np_tensor
        /\ err # AssertionError

--------------------------------------------------------------------------
(* Claims on the gradient buffers backward() writes to. *)

\* C14: when backward() is about to call a node's closure, every parent the closure
\* adds into (the operands that required gradient when the node was built) has a
\* gradient buffer.
C14_ParentsHaveBuffers ==
    (pc = "grads" /\ nodes[ordering[pos]].grad_fn # None) =>
        \A p \in nodes[ordering[pos]]._prev : nodes[p].grad # None

====
